---- MODULE Spec2Model ----
(***************************************************************************)
(* Glock: named, time-bounded leases kept in one DynamoDB table.           *)
(*                                                                         *)
(* The model follows DynamoBackend (Acquire, Heartbeat, UpdateValue,       *)
(* Release).  Each backend call that reads the clock is two steps: the     *)
(* handler goroutine reads time.Now() and builds the request (XxxBegin),   *)
(* and later the table applies the single conditional UpdateItem and the   *)
(* call returns (XxxStore).  Handlers run concurrently, so several calls   *)
(* may be in flight, and the clock may advance between the two steps.      *)
(* Release reads no clock and is one step.                                 *)
(*                                                                         *)
(* Instants are integers (UnixNano); 0 is the epoch and the clock starts   *)
(* after it.  Numbers travel to the table as decimal strings of int64      *)
(* values and come back unchanged; the model keeps them as integers.       *)
(* The table is assumed reachable: the only errors it returns are the      *)
(* ones a request itself causes (validation, failed condition).            *)
(* It accepts the empty string as the value of a non-key attribute.        *)
(***************************************************************************)
EXTENDS Integers, FiniteSets, Sequences, TLC

\* ---------------------------------------------------------------- bounds
NumNames == 1
NumNonces == 2
NumValues == 1
MaxTime == 4
MaxFence == 3
MaxInFlight == 2
\* A call reaches the table at most MaxLag ticks after it read the clock.
MaxLag == 1
\* The requests the server handles at a time, where the transport is modelled.
MaxRequests == 1

\* The fixed lease duration every handler passes to the backend, in ticks.
leaseDuration == 2

Names == {"job" \o ToString(i) : i \in 1..NumNames}
Nonces == {"n" \o ToString(i) : i \in 1..NumNonces}
Values == {""} \cup {"v" \o ToString(i) : i \in 1..NumValues}
Fences == 1..MaxFence

\* ----------------------------------------------------------------- state
VARIABLES
    db,        \* the table: lock name -> item (attribute -> value), NoItem if absent
    clock,     \* the process's clock, time.Now()
    inflight,  \* backend calls that have read the clock and not yet reached the table
    ret,       \* what the step just taken returned: the call, its result and the item
               \* before it; NoReturn when the step returned nothing
    acquired,  \* per name, the fences returned by successful Acquires, in order
    resp,      \* what the step just taken wrote to its HTTP client; NoResponse if nothing
    written,   \* per name, the value of the last successful UpdateValue, "" if none
    rivals     \* the Acquires in flight during which another Acquire of their name
               \* succeeded: the call, the item that Acquire left, and its lag

vars == <<db, clock, inflight, ret, acquired, resp, written, rivals>>

\* ------------------------------------------------- DynamoDB expressions
NoItem == [a \in {} |-> 0]

attribute_exists(item, a) == a \in DOMAIN item

attribute_not_exists(item, a) == a \notin DOMAIN item

if_not_exists(item, a, v) == IF a \in DOMAIN item THEN item[a] ELSE v

\* A comparison on an attribute the item lacks is false.
AttrLess(item, a, v) == a \in DOMAIN item /\ item[a] < v

AttrGreater(item, a, v) == a \in DOMAIN item /\ item[a] > v

AttrEquals(item, a, v) == a \in DOMAIN item /\ item[a] = v

\* SET: the assigned attributes replace or extend the item's.
SetAttributes(item, assigns) ==
    [a \in DOMAIN item \cup DOMAIN assigns |->
        IF a \in DOMAIN assigns THEN assigns[a] ELSE item[a]]

\* A request is rejected before its condition is looked at when an expression
\* does not parse (a SET action needs "path = operand"), or when the
\* placeholders the expressions use are not exactly the values supplied.
RequestValid(setActions, used, supplied) ==
    /\ \A i \in DOMAIN setActions : setActions[i].assign
    /\ used = supplied

\* UpdateItem: validation, then the condition, then the update, atomically.
UpdateItem(item, valid, condition, updated) ==
    IF ~valid THEN [code |-> "ValidationException", item |-> item]
    ELSE IF ~condition THEN [code |-> "ConditionalCheckFailedException", item |-> item]
    ELSE [code |-> "", item |-> updated]

\* ----------------------------------------------------------- Go values
nil == [type |-> "nil", msg |-> ""]

ExpectedErrorPtr(msg) == [type |-> "*ExpectedError", msg |-> msg]

AwsError(code) == [type |-> "awserr.Error", msg |-> code]

NilAcquisition == [a \in {} |-> 0]

extractInt(attrs, key) == attrs[key]

extractString(attrs, key) == IF key \in DOMAIN attrs THEN attrs[key] ELSE ""

Call(op, name, nonce, fence, value, now) ==
    [op |-> op, name |-> name, nonce |-> nonce, fence |-> fence,
     value |-> value, now |-> now]

NoCall == Call("none", "", "", 0, "", 0)

Returned(call, err, acq, pre) ==
    [call |-> call, err |-> err, acq |-> acq, pre |-> pre]

NoReturn == Returned(NoCall, nil, NilAcquisition, NoItem)

\* ---------------------------------------------------------------- Acquire
AcquireSetActions ==
    << [path |-> "Nonce", assign |-> TRUE],
       [path |-> "Fence", assign |-> TRUE],
       [path |-> "AcquireTime", assign |-> TRUE],
       [path |-> "HeartbeatTime", assign |-> TRUE],
       [path |-> "ExpireTime", assign |-> TRUE] >>

AcquirePlaceholders == {":now", ":nonce", ":zero", ":one", ":expire"}

AcquireAttributeValues == {":one", ":zero", ":now", ":expire", ":nonce"}

\* Mutants of the condition: the expiry comparison turned round, the nonce
\* disjunct left out, the expiry disjunct left out.
AcquireConditionInverted(item, now, nonce) ==
    \/ attribute_not_exists(item, "LockName")
    \/ AttrGreater(item, "ExpireTime", now)
    \/ AttrEquals(item, "Nonce", nonce)

AcquireConditionNoNonce(item, now, nonce) ==
    \/ attribute_not_exists(item, "LockName")
    \/ AttrLess(item, "ExpireTime", now)

AcquireConditionNoExpiry(item, now, nonce) ==
    \/ attribute_not_exists(item, "LockName")
    \/ AttrEquals(item, "Nonce", nonce)

\* Mutant of the condition: the update sent without a ConditionExpression.
AcquireConditionAbsent(item, now, nonce) == TRUE

AcquireCondition(item, now, nonce) ==
    \/ attribute_not_exists(item, "LockName")
    \/ AttrLess(item, "ExpireTime", now)
    \/ AttrEquals(item, "Nonce", nonce)

\* Mutants of the update: the fence written as :one, and if_not_exists
\* defaulting to :one instead of :zero.
AcquireUpdateFenceReset(item, name, nonce, now, expire) ==
    SetAttributes(item,
        [LockName |-> name, Nonce |-> nonce, Fence |-> 1,
         AcquireTime |-> now, HeartbeatTime |-> now, ExpireTime |-> expire])

AcquireUpdateFromOne(item, name, nonce, now, expire) ==
    SetAttributes(item,
        [LockName |-> name, Nonce |-> nonce,
         Fence |-> if_not_exists(item, "Fence", 1) + 1,
         AcquireTime |-> now, HeartbeatTime |-> now, ExpireTime |-> expire])

\* Mutant of the update: a fresh acquisition also clears the body.
AcquireUpdateClearsBody(item, name, nonce, now, expire) ==
    SetAttributes(item,
        [LockName |-> name, Nonce |-> nonce,
         Fence |-> if_not_exists(item, "Fence", 0) + 1,
         AcquireTime |-> now, HeartbeatTime |-> now, ExpireTime |-> expire,
         Body |-> ""])

AcquireUpdate(item, name, nonce, now, expire) ==
    SetAttributes(item,
        [LockName |-> name,
         Nonce |-> nonce,
         Fence |-> if_not_exists(item, "Fence", 0) + 1,
         AcquireTime |-> now,
         HeartbeatTime |-> now,
         ExpireTime |-> expire])

AcquireUpdateItem(item, name, nonce, now, expire) ==
    UpdateItem(item,
               RequestValid(AcquireSetActions, AcquirePlaceholders, AcquireAttributeValues),
               AcquireCondition(item, now, nonce),
               AcquireUpdate(item, name, nonce, now, expire))

\* What Acquire returns for the table's answer: the error, and the acquisition
\* read from the ALL_NEW attributes.
AcquireResult(r) ==
    IF r.code = "ConditionalCheckFailedException"
        THEN [err |-> ExpectedErrorPtr("Lock in use"), acq |-> NilAcquisition]
    ELSE IF r.code # ""
        THEN [err |-> AwsError(r.code), acq |-> NilAcquisition]
    ELSE [err |-> nil,
          acq |-> [AcquireTime |-> extractInt(r.item, "AcquireTime"),
                   ExpireTime |-> extractInt(r.item, "ExpireTime"),
                   Fence |-> extractInt(r.item, "Fence"),
                   Body |-> extractString(r.item, "Body")]]

AcquireBegin(name, nonce) ==
    /\ Cardinality(inflight) < MaxInFlight
    /\ inflight' = inflight \cup {Call("Acquire", name, nonce, 0, "", clock)}
    /\ ret' = NoReturn
    /\ UNCHANGED <<db, clock, acquired>>

AcquireStore(c) ==
    /\ c \in inflight
    /\ c.op = "Acquire"
    /\ if_not_exists(db[c.name], "Fence", 0) < MaxFence
    /\ LET r == AcquireUpdateItem(db[c.name], c.name, c.nonce, c.now, c.now + leaseDuration)
           res == AcquireResult(r)
       IN  /\ db' = [db EXCEPT ![c.name] = r.item]
           /\ ret' = Returned(c, res.err, res.acq, db[c.name])
           /\ acquired' = IF res.err = nil
                             THEN [acquired EXCEPT ![c.name] = Append(@, res.acq.Fence)]
                             ELSE acquired
    /\ inflight' = inflight \ {c}
    /\ UNCHANGED clock

\* -------------------------------------------------------------- Heartbeat
\* "SET HeartbeatTime :now, ExpireTime = :expire": the first action has no "=".
HeartbeatSetActions ==
    << [path |-> "HeartbeatTime", assign |-> FALSE],
       [path |-> "ExpireTime", assign |-> TRUE] >>

HeartbeatPlaceholders == {":now", ":fence", ":expire"}

HeartbeatAttributeValues == {":fence", ":now", ":expire"}

HeartbeatCondition(item, now, fence) ==
    /\ attribute_exists(item, "LockName")
    /\ AttrGreater(item, "ExpireTime", now)
    /\ AttrEquals(item, "Fence", fence)

HeartbeatUpdate(item, now, expire) ==
    SetAttributes(item, [HeartbeatTime |-> now, ExpireTime |-> expire])

HeartbeatUpdateItem(item, fence, now, expire) ==
    UpdateItem(item,
               RequestValid(HeartbeatSetActions, HeartbeatPlaceholders, HeartbeatAttributeValues),
               HeartbeatCondition(item, now, fence),
               HeartbeatUpdate(item, now, expire))

HeartbeatResult(r) ==
    IF r.code = "ConditionalCheckFailedException" THEN ExpectedErrorPtr("Lock expired")
    ELSE IF r.code # "" THEN AwsError(r.code)
    ELSE nil

HeartbeatBegin(name, fence) ==
    /\ Cardinality(inflight) < MaxInFlight
    /\ inflight' = inflight \cup {Call("Heartbeat", name, "", fence, "", clock)}
    /\ ret' = NoReturn
    /\ UNCHANGED <<db, clock, acquired>>

HeartbeatStore(c) ==
    /\ c \in inflight
    /\ c.op = "Heartbeat"
    /\ LET r == HeartbeatUpdateItem(db[c.name], c.fence, c.now, c.now + leaseDuration)
       IN  /\ db' = [db EXCEPT ![c.name] = r.item]
           /\ ret' = Returned(c, HeartbeatResult(r), NilAcquisition, db[c.name])
    /\ inflight' = inflight \ {c}
    /\ UNCHANGED <<clock, acquired>>

\* ------------------------------------------------------------ UpdateValue
UpdateValueSetActions ==
    << [path |-> "Body", assign |-> TRUE],
       [path |-> "HeartbeatTime", assign |-> TRUE],
       [path |-> "ExpireTime", assign |-> TRUE] >>

UpdateValuePlaceholders == {":now", ":fence", ":value", ":expire"}

UpdateValueAttributeValues == {":now", ":expire", ":fence", ":value"}

\* Mutant of the condition: the expiry comparison left out.
UpdateValueConditionNoExpiry(item, now, fence) ==
    /\ attribute_exists(item, "LockName")
    /\ AttrEquals(item, "Fence", fence)

UpdateValueCondition(item, now, fence) ==
    /\ attribute_exists(item, "LockName")
    /\ AttrGreater(item, "ExpireTime", now)
    /\ AttrEquals(item, "Fence", fence)

\* Mutant of the update: the body written without renewing the lease.
UpdateValueUpdateNoRenew(item, value, now, expire) ==
    SetAttributes(item, [Body |-> value])

\* Mutant of the update: ExpireTime written as :now.
UpdateValueUpdateExpireNow(item, value, now, expire) ==
    SetAttributes(item, [Body |-> value, HeartbeatTime |-> now, ExpireTime |-> now])

UpdateValueUpdate(item, value, now, expire) ==
    SetAttributes(item, [Body |-> value, HeartbeatTime |-> now, ExpireTime |-> expire])

UpdateValueUpdateItem(item, fence, value, now, expire) ==
    UpdateItem(item,
               RequestValid(UpdateValueSetActions, UpdateValuePlaceholders,
                            UpdateValueAttributeValues),
               UpdateValueCondition(item, now, fence),
               UpdateValueUpdate(item, value, now, expire))

UpdateValueResult(r) ==
    IF r.code = "ConditionalCheckFailedException" THEN ExpectedErrorPtr("Lock expired")
    ELSE IF r.code # "" THEN AwsError(r.code)
    ELSE nil

UpdateValueBegin(name, fence, value) ==
    /\ Cardinality(inflight) < MaxInFlight
    /\ inflight' = inflight \cup {Call("UpdateValue", name, "", fence, value, clock)}
    /\ ret' = NoReturn
    /\ UNCHANGED <<db, clock, acquired>>

UpdateValueStore(c) ==
    /\ c \in inflight
    /\ c.op = "UpdateValue"
    /\ LET r == UpdateValueUpdateItem(db[c.name], c.fence, c.value, c.now,
                                      c.now + leaseDuration)
       IN  /\ db' = [db EXCEPT ![c.name] = r.item]
           /\ ret' = Returned(c, UpdateValueResult(r), NilAcquisition, db[c.name])
    /\ inflight' = inflight \ {c}
    /\ UNCHANGED <<clock, acquired>>

\* ---------------------------------------------------------------- Release
ReleaseSetActions == << [path |-> "ExpireTime", assign |-> TRUE] >>

\* The condition names :fence; the values supplied hold :zero alone.
ReleasePlaceholders == {":fence", ":zero"}

ReleaseAttributeValues == {":zero"}

ReleaseCondition(item, fence) ==
    /\ attribute_exists(item, "LockName")
    /\ AttrEquals(item, "Fence", fence)

ReleaseUpdate(item) == SetAttributes(item, [ExpireTime |-> 0])

ReleaseUpdateItem(item, fence) ==
    UpdateItem(item,
               RequestValid(ReleaseSetActions, ReleasePlaceholders, ReleaseAttributeValues),
               ReleaseCondition(item, fence),
               ReleaseUpdate(item))

\* A failed condition is swallowed: release is meant to be idempotent.
ReleaseResult(r) ==
    IF r.code = "ConditionalCheckFailedException" THEN nil
    ELSE IF r.code # "" THEN AwsError(r.code)
    ELSE nil

Release(name, fence) ==
    /\ LET r == ReleaseUpdateItem(db[name], fence)
       IN  /\ db' = [db EXCEPT ![name] = r.item]
           /\ ret' = Returned(Call("Release", name, "", fence, "", 0),
                              ReleaseResult(r), NilAcquisition, db[name])
    /\ UNCHANGED <<clock, inflight, acquired>>

\* ------------------------------------------------------------------ clock
Tick ==
    /\ clock < MaxTime
    /\ \A c \in inflight : clock - c.now < MaxLag
    /\ clock' = clock + 1
    /\ ret' = NoReturn
    /\ UNCHANGED <<db, inflight, acquired>>

\* -------------------------------------------------------------- transport
\* A request: its method, its path split at "/", the nonce of the query string,
\* the nonce of the posted form and the body.
Request(method, path, query, form, body) ==
    [method |-> method, path |-> path, query |-> query, form |-> form, body |-> body]

NoRequest == Request("", <<>>, "", "", "")

Lit(s) == [lit |-> s]

Var(v) == [var |-> v]

\* The routes in the order they are registered.
routes ==
    << [path |-> <<Lit("locks"), Var("key")>>,
        methods |-> {"PUT", "POST"}, handler |-> "AcquireHandler"],
       [path |-> <<Lit("locks"), Var("key"), Var("fence")>>,
        methods |-> {"PUT", "POST"}, handler |-> "UpdateValueHandler"],
       [path |-> <<Lit("locks"), Var("key"), Var("fence"), Lit("heartbeat")>>,
        methods |-> {"POST"}, handler |-> "HeartbeatHandler"],
       [path |-> <<Lit("locks"), Var("key")>>,
        methods |-> {"DELETE"}, handler |-> "ReleaseHandler"] >>

\* A path template matches segment by segment; a variable takes one non-empty
\* segment.
MatchPath(template, path) ==
    /\ Len(template) = Len(path)
    /\ \A i \in DOMAIN template :
          IF "lit" \in DOMAIN template[i]
              THEN path[i] = template[i].lit
              ELSE path[i] # ""

\* mux.Vars: the variables of the matched template; a name the template lacks
\* reads as "".
PathVar(template, path, v) ==
    LET at == {i \in DOMAIN template :
                  "var" \in DOMAIN template[i] /\ template[i].var = v}
    IN  IF at = {} THEN "" ELSE path[CHOOSE i \in at : TRUE]

\* The router serves the first route whose path and method both match; with
\* none, it answers 405 when some path matched under another method, else 404.
ServeHTTP(req) ==
    LET full == {i \in DOMAIN routes :
                    MatchPath(routes[i].path, req.path) /\ req.method \in routes[i].methods}
        byPath == {i \in DOMAIN routes : MatchPath(routes[i].path, req.path)}
    IN  IF full # {}
            THEN LET i == CHOOSE k \in full : \A j \in full : k <= j
                 IN  [handler |-> routes[i].handler, status |-> 0,
                      key |-> PathVar(routes[i].path, req.path, "key"),
                      fence |-> PathVar(routes[i].path, req.path, "fence")]
        ELSE [handler |-> "", status |-> IF byPath # {} THEN 405 ELSE 404,
              key |-> "", fence |-> ""]

\* strconv.ParseInt(s, 10, 64) on the decimal strings of the model's range.
ParseRange == 0..(MaxFence + 1)

ParseInt(str) ==
    LET hit == {i \in ParseRange : ToString(i) = str}
    IN  IF hit = {} THEN [ok |-> FALSE, value |-> 0]
        ELSE [ok |-> TRUE, value |-> CHOOSE i \in hit : TRUE]

MaxNonceBytes == 64

\* What a handler does before any backend call returns: the status it has
\* written (0 if none) and the backend call it makes (op "none" if it returned).
Reject(status) ==
    [status |-> status, op |-> "none", name |-> "", nonce |-> "", fence |-> 0, value |-> ""]

Proceed(status, op, name, nonce, fence, value) ==
    [status |-> status, op |-> op, name |-> name, nonce |-> nonce, fence |-> fence,
     value |-> value]

\* The nonce check writes 400 and does not return.
AcquireHandler(req, key) ==
    LET nonce == IF req.query # "" THEN req.query ELSE req.form
    IN  IF key = "" THEN Reject(400)
        ELSE IF nonce = "" THEN Reject(400)
        ELSE Proceed(IF Len(nonce) > MaxNonceBytes THEN 400 ELSE 0,
                     "Acquire", key, nonce, 0, "")

FenceHandler(op, req, key, fenceStr, value) ==
    IF key = "" THEN Reject(400)
    ELSE IF fenceStr = "" THEN Reject(400)
    ELSE IF ~ParseInt(fenceStr).ok THEN Reject(400)
    ELSE Proceed(0, op, key, "", ParseInt(fenceStr).value, value)

UpdateValueHandler(req, key, fenceStr) ==
    FenceHandler("UpdateValue", req, key, fenceStr, req.body)

HeartbeatHandler(req, key, fenceStr) == FenceHandler("Heartbeat", req, key, fenceStr, "")

ReleaseHandler(req, key, fenceStr) == FenceHandler("Release", req, key, fenceStr, "")

Handle(req) ==
    LET r == ServeHTTP(req)
    IN  CASE r.handler = "AcquireHandler" -> AcquireHandler(req, r.key)
          [] r.handler = "UpdateValueHandler" -> UpdateValueHandler(req, r.key, r.fence)
          [] r.handler = "HeartbeatHandler" -> HeartbeatHandler(req, r.key, r.fence)
          [] r.handler = "ReleaseHandler" -> ReleaseHandler(req, r.key, r.fence)
          [] OTHER -> Reject(r.status)

\* if _, ok := err.(ExpectedError); ok: the dynamic type must be ExpectedError
\* itself; a *ExpectedError does not satisfy the assertion.
IsExpectedError(err) == err.type = "ExpectedError"

ErrorStatus(err) ==
    IF err = nil THEN 200
    ELSE IF IsExpectedError(err) THEN 403
    ELSE 500

\* The status the client sees: the first header written stays.
FinalStatus(sent, err) == IF sent # 0 THEN sent ELSE ErrorStatus(err)

Response(method, path, status, call) ==
    [method |-> method, path |-> path, status |-> status, call |-> call]

NoResponse == Response("", <<>>, 0, NoCall)

\* A step outside the handlers' responses.
Quiet == resp' = NoResponse

\* The handler of the call that returned in this step answers its client.
Answer ==
    resp' = Response("", <<>>,
                     FinalStatus(IF ret'.call.op = "Acquire"
                                      /\ Len(ret'.call.nonce) > MaxNonceBytes
                                    THEN 400 ELSE 0,
                                 ret'.err),
                     ret'.call)

\* The requests clients send.
Methods == {"POST", "PUT", "DELETE"}

LongNonce ==
    "nnnnnnnnnnnnnnnnnnnnnnnnnnnnnnnnnnnnnnnnnnnnnnnnnnnnnnnnnnnnnnnnn"

FenceSegments == {ToString(f) : f \in Fences} \cup {"x"}

Requests ==
    {Request(m, <<"locks">>, "", "", "") : m \in Methods}
    \cup {Request(m, <<"locks", n>>, q, f, "") :
            m \in Methods, n \in Names, q \in {"", "n1", LongNonce}, f \in {"", "n1"}}
    \cup {Request(m, <<"locks", n, fs>>, "", "", v) :
            m \in Methods, n \in Names, fs \in FenceSegments, v \in Values}
    \cup {Request(m, <<"locks", n, fs, "heartbeat">>, "", "", "") :
            m \in Methods, n \in Names, fs \in FenceSegments}

\* Each request's routing and handling, worked out once.
Handled == [req \in Requests |-> Handle(req)]

\* A request arrives: it is refused, or its handler reads the clock and sends
\* its backend call (Release, which reads no clock, is one step).
Serve(req) ==
    LET h == Handled[req]
    IN  CASE h.op = "none" ->
                /\ Cardinality(inflight) < MaxInFlight
                /\ resp' = Response(req.method, req.path, h.status, NoCall)
                /\ ret' = NoReturn
                /\ UNCHANGED <<db, clock, inflight, acquired>>
          [] h.op = "Acquire" ->
                /\ AcquireBegin(h.name, h.nonce)
                /\ resp' = Response(req.method, req.path, h.status,
                                    Call("Acquire", h.name, h.nonce, 0, "", clock))
          [] h.op = "UpdateValue" ->
                /\ UpdateValueBegin(h.name, h.fence, h.value)
                /\ resp' = Response(req.method, req.path, h.status,
                                    Call("UpdateValue", h.name, "", h.fence, h.value, clock))
          [] h.op = "Heartbeat" ->
                /\ HeartbeatBegin(h.name, h.fence)
                /\ resp' = Response(req.method, req.path, h.status,
                                    Call("Heartbeat", h.name, "", h.fence, "", clock))
          [] h.op = "Release" ->
                /\ Release(h.name, h.fence)
                /\ resp' = Response(req.method, req.path,
                                    FinalStatus(h.status, ret'.err), ret'.call)

\* What the step adds to the record of the past.
History ==
    /\ written' = IF ret'.call.op = "UpdateValue" /\ ret'.err = nil
                     THEN [written EXCEPT ![ret'.call.name] = ret'.call.value]
                     ELSE written
    /\ rivals' =
         LET a == ret'.call
             won == a.op = "Acquire" /\ ret'.err = nil
             still == {r \in rivals : r.call \in inflight'}
             beaten == {c \in inflight' : c.op = "Acquire" /\ c.name = a.name}
         IN  IF won
                 THEN {r \in still : r.call \notin beaten}
                      \cup {[call |-> c, item |-> db'[a.name], lag |-> clock - a.now] :
                              c \in beaten}
                 ELSE still

\* ------------------------------------------------------------------- spec
Init ==
    /\ db = [n \in Names |-> NoItem]
    /\ clock = 1
    /\ inflight = {}
    /\ ret = NoReturn
    /\ acquired = [n \in Names |-> <<>>]
    /\ resp = NoResponse
    /\ written = [n \in Names |-> ""]
    /\ rivals = {}

\* The backend, called as the handlers call it.
Next ==
    \/ Tick /\ Quiet /\ History
    \/ \E n \in Names, x \in Nonces : AcquireBegin(n, x) /\ Quiet /\ History
    \/ \E c \in inflight : AcquireStore(c) /\ Answer /\ History
    \/ \E n \in Names, f \in Fences : HeartbeatBegin(n, f) /\ Quiet /\ History
    \/ \E c \in inflight : HeartbeatStore(c) /\ Answer /\ History
    \/ \E n \in Names, f \in Fences, v \in Values : UpdateValueBegin(n, f, v) /\ Quiet /\ History
    \/ \E c \in inflight : UpdateValueStore(c) /\ Answer /\ History
    \/ \E n \in Names, f \in Fences : Release(n, f) /\ Quiet /\ History

Spec == Init /\ [][Next]_vars

\* The server: every backend call is made by the handler of a request.
HttpNext ==
    \/ Tick /\ Quiet /\ History
    \/ \E req \in Requests : Cardinality(inflight) < MaxRequests /\ Serve(req) /\ History
    \/ \E c \in inflight : AcquireStore(c) /\ Answer /\ History
    \/ \E c \in inflight : HeartbeatStore(c) /\ Answer /\ History
    \/ \E c \in inflight : UpdateValueStore(c) /\ Answer /\ History

HttpSpec == Init /\ [][HttpNext]_vars

\* The backend under the scheduling the program runs with: the clock keeps
\* advancing and every UpdateItem call sent to the table is answered. An
\* Acquire is started only while the fence it may write is within MaxFence, so
\* that every call in flight can be answered; MaxRequests calls are in flight
\* at a time.
FenceRoom(name) ==
    if_not_exists(db[name], "Fence", 0)
        + Cardinality({c \in inflight : c.op = "Acquire" /\ c.name = name}) < MaxFence

LiveNext ==
    \/ Tick /\ Quiet /\ History
    \/ /\ Cardinality(inflight) < MaxRequests
       /\ \/ \E n \in Names, x \in Nonces :
                 FenceRoom(n) /\ AcquireBegin(n, x) /\ Quiet /\ History
          \/ \E n \in Names, f \in Fences : HeartbeatBegin(n, f) /\ Quiet /\ History
          \/ \E n \in Names, f \in Fences, v \in Values :
                 UpdateValueBegin(n, f, v) /\ Quiet /\ History
    \/ \E c \in inflight : AcquireStore(c) /\ Answer /\ History
    \/ \E c \in inflight : HeartbeatStore(c) /\ Answer /\ History
    \/ \E c \in inflight : UpdateValueStore(c) /\ Answer /\ History
    \/ \E n \in Names, f \in Fences : Release(n, f) /\ Quiet /\ History

\* A call in flight that no other call in flight precedes by its clock reading.
Oldest(c) == \A d \in inflight : c.now <= d.now

\* The clock advances, and the table answers the calls sent to it: no call is
\* overtaken for ever by later ones.
Fairness ==
    /\ WF_vars(Tick /\ Quiet /\ History)
    /\ WF_vars(\E c \in inflight :
                  /\ Oldest(c)
                  /\ (AcquireStore(c) \/ HeartbeatStore(c) \/ UpdateValueStore(c))
                  /\ Answer /\ History)

LiveSpec == Init /\ [][LiveNext]_vars /\ Fairness

\* ----------------------------------------------------------------- claims
Exists(item) == "LockName" \in DOMAIN item

FenceOf(item) == IF "Fence" \in DOMAIN item THEN item.Fence ELSE 0

BodyOf(item) == IF "Body" \in DOMAIN item THEN item.Body ELSE ""

HeldAt(item, t) == Exists(item) /\ item.ExpireTime > t

Succeeded(op) == ret.call.op = op /\ ret.err = nil

StrictlyIncreasing(s) == \A i, j \in DOMAIN s : i < j => s[i] < s[j]

\* C1: mutual exclusion.  An Acquire that reaches the table while the record
\* is held (stored ExpireTime strictly after the clock) and carries a nonce
\* other than the stored one fails with the expected error "Lock in use",
\* returns no acquisition and leaves the record as it was.
C1_MutualExclusion ==
    (/\ ret.call.op = "Acquire"
     /\ HeldAt(ret.pre, clock)
     /\ ret.pre.Nonce # ret.call.nonce)
    => /\ ret.err = ExpectedErrorPtr("Lock in use")
       /\ ret.acq = NilAcquisition
       /\ db[ret.call.name] = ret.pre

C1_Witness ==
    /\ ret.call.op = "Acquire"
    /\ HeldAt(ret.pre, clock)
    /\ ret.pre.Nonce # ret.call.nonce
    /\ ret.err.type = "*ExpectedError"
    /\ Len(acquired[ret.call.name]) >= 1

\* C2: fence monotonicity.  In every step the stored fence of every name stays
\* or grows by exactly 1; it grows exactly in the steps where an Acquire of that
\* name succeeds, and that Acquire returns the new stored fence; the fences
\* returned by the successful Acquires of a name are strictly increasing, so
\* none is returned twice.
C2_FenceMonotonic ==
    [][\A n \in Names :
        LET grew == ret'.call.op = "Acquire" /\ ret'.call.name = n /\ ret'.err = nil
        IN  /\ FenceOf(db'[n]) >= FenceOf(db[n])
            /\ grew => /\ FenceOf(db'[n]) = FenceOf(db[n]) + 1
                       /\ ret'.acq.Fence = FenceOf(db'[n])
            /\ ~grew => FenceOf(db'[n]) = FenceOf(db[n])
            /\ StrictlyIncreasing(acquired'[n])]_vars

C2_Witness ==
    \E n \in Names :
        /\ Len(acquired[n]) >= 3
        /\ Succeeded("Acquire")
        /\ BodyOf(db[n]) # ""

\* C3: an Acquire that finds no record for its name succeeds, creates the
\* record under that name and nonce, and returns fence 1 and an empty body.
C3_FirstAcquire ==
    (ret.call.op = "Acquire" /\ ~Exists(ret.pre))
    => /\ ret.err = nil
       /\ ret.acq.Fence = 1
       /\ ret.acq.Body = ""
       /\ Exists(db[ret.call.name])
       /\ db[ret.call.name].LockName = ret.call.name
       /\ db[ret.call.name].Nonce = ret.call.nonce
       /\ db[ret.call.name].Fence = 1

C3_Witness ==
    /\ ret.call.op = "Acquire"
    /\ ~Exists(ret.pre)
    /\ ret.err = nil
    /\ ret.acq.Fence = 1

\* C4: idempotent re-acquisition.  An Acquire that reaches the table before
\* expiry with the nonce of the current holder succeeds, and returns a fence
\* exactly 1 greater than the one the previous successful Acquire returned.
C4_SameNonceReacquire ==
    (/\ ret.call.op = "Acquire"
     /\ HeldAt(ret.pre, clock)
     /\ ret.pre.Nonce = ret.call.nonce)
    => /\ ret.err = nil
       /\ ret.acq.Fence = ret.pre.Fence + 1
       /\ LET a == acquired[ret.call.name]
          IN  Len(a) >= 2 /\ a[Len(a)] = ret.acq.Fence /\ a[Len(a) - 1] = ret.acq.Fence - 1

C4_Witness ==
    /\ ret.call.op = "Acquire"
    /\ HeldAt(ret.pre, clock)
    /\ ret.pre.Nonce = ret.call.nonce
    /\ ret.err = nil
    /\ ret.acq.Fence = 3

\* C5: an Acquire that read the clock after the stored ExpireTime had passed
\* succeeds whatever the stored nonce is, and returns the stored fence plus 1.
C5_AcquireAfterExpiry ==
    (/\ ret.call.op = "Acquire"
     /\ Exists(ret.pre)
     /\ ret.pre.ExpireTime < ret.call.now)
    => /\ ret.err = nil
       /\ ret.acq.Fence = ret.pre.Fence + 1
       /\ db[ret.call.name].Fence = ret.pre.Fence + 1
       /\ db[ret.call.name].Nonce = ret.call.nonce

C5_Witness ==
    /\ ret.call.op = "Acquire"
    /\ Exists(ret.pre)
    /\ ret.pre.ExpireTime < ret.call.now
    /\ ret.pre.Nonce # ret.call.nonce
    /\ ret.err = nil
    /\ ret.acq.Fence >= 2

\* C6: a Heartbeat or UpdateValue whose fence differs from the stored fence
\* fails with the expected error "Lock expired" and leaves the record as it
\* was, expired or not.
C6_WrongFenceFails ==
    (/\ ret.call.op \in {"Heartbeat", "UpdateValue"}
     /\ Exists(ret.pre)
     /\ ret.pre.Fence # ret.call.fence)
    => /\ ret.err = ExpectedErrorPtr("Lock expired")
       /\ db[ret.call.name] = ret.pre

\* C7: a Heartbeat on an existing record whose ExpireTime is strictly after
\* the call's now and whose fence is the call's succeeds, sets HeartbeatTime
\* to now and ExpireTime to now + extension and changes nothing else.
C7_HeartbeatRenews ==
    (/\ ret.call.op = "Heartbeat"
     /\ HeldAt(ret.pre, ret.call.now)
     /\ ret.pre.Fence = ret.call.fence)
    => /\ ret.err = nil
       /\ db[ret.call.name] =
              [ret.pre EXCEPT !.HeartbeatTime = ret.call.now,
                              !.ExpireTime = ret.call.now + leaseDuration]

\* C8: a successful UpdateValue sets Body to its value, HeartbeatTime to its
\* now and ExpireTime to now + extension in the one step and leaves LockName,
\* Nonce, Fence and AcquireTime alone; and the stored body of a name changes
\* in no step other than a successful UpdateValue of that name, so a later
\* read yields that value until the next one.
C8_UpdateValueSetsBody ==
    [][\A n \in Names :
        LET c == ret'.call
            mine == c.op = "UpdateValue" /\ c.name = n
        IN  /\ (mine /\ ret'.err = nil) =>
                   /\ DOMAIN db'[n] = DOMAIN db[n] \cup {"Body"}
                   /\ db'[n].Body = c.value
                   /\ db'[n].HeartbeatTime = c.now
                   /\ db'[n].ExpireTime = c.now + leaseDuration
                   /\ db'[n].LockName = db[n].LockName
                   /\ db'[n].Nonce = db[n].Nonce
                   /\ db'[n].Fence = db[n].Fence
                   /\ db'[n].AcquireTime = db[n].AcquireTime
            /\ ~(mine /\ ret'.err = nil) =>
                   /\ BodyOf(db'[n]) = BodyOf(db[n])
                   /\ ("Body" \in DOMAIN db'[n]) = ("Body" \in DOMAIN db[n])]_vars

C8_Witness ==
    /\ Succeeded("UpdateValue")
    /\ ret.call.value # ""
    /\ BodyOf(ret.pre) # ret.call.value
    /\ db[ret.call.name].Body = ret.call.value
    /\ db[ret.call.name].ExpireTime > ret.pre.ExpireTime
    /\ HeldAt(ret.pre, clock)
    /\ ret.pre.Fence = ret.call.fence

\* C9: a Release with the stored fence succeeds, sets ExpireTime to the epoch
\* and changes nothing else.
C9_ReleaseExpires ==
    (/\ ret.call.op = "Release"
     /\ Exists(ret.pre)
     /\ ret.pre.Fence = ret.call.fence)
    => /\ ret.err = nil
       /\ db[ret.call.name] = [ret.pre EXCEPT !.ExpireTime = 0]

\* C10: a Release on an absent record or with a fence other than the stored
\* one returns success and leaves the table as it was.
C10_ReleaseIdempotent ==
    (/\ ret.call.op = "Release"
     /\ (~Exists(ret.pre) \/ ret.pre.Fence # ret.call.fence))
    => /\ ret.err = nil
       /\ db[ret.call.name] = ret.pre
\* C11: a DELETE of /locks/<name>/<fence> with a numeric fence reaches
\* Release(name, fence) and is answered 200, or 500 on a store error; it is
\* never refused as malformed or unrouted.
C11_ReleaseRouted ==
    (/\ resp.method = "DELETE"
     /\ Len(resp.path) = 3
     /\ resp.path[1] = "locks"
     /\ resp.path[2] \in Names
     /\ ParseInt(resp.path[3]).ok)
    => /\ resp.call.op = "Release"
       /\ resp.call.name = resp.path[2]
       /\ resp.call.fence = ParseInt(resp.path[3]).value
       /\ resp.status \in {200, 500}
\* C12: the stored body of every name is the value of the last successful
\* UpdateValue of that name, or "" if there was none; a successful Acquire
\* (first, by the holder, or by another nonce after expiry) returns that value
\* as its body and leaves the stored body alone, and so does Release.
C12_BodyPersists ==
    /\ \A n \in Names : BodyOf(db[n]) = written[n]
    /\ Succeeded("Acquire") =>
           /\ ret.acq.Body = written[ret.call.name]
           /\ BodyOf(db[ret.call.name]) = BodyOf(ret.pre)
    /\ ret.call.op = "Release" => BodyOf(db[ret.call.name]) = BodyOf(ret.pre)

C12_Witness ==
    /\ Succeeded("Acquire")
    /\ Exists(ret.pre)
    /\ ret.pre.Nonce # ret.call.nonce
    /\ ret.acq.Body # ""
    /\ ret.acq.Body = written[ret.call.name]

\* C13: a call that fails for an expected reason (Acquire on a lease another
\* nonce holds, Heartbeat or UpdateValue with a wrong fence or on an expired
\* lease) is answered 403, and 500 answers an unexpected store error only.
C13_ErrorClasses ==
    (ret.call.op \in {"Acquire", "Heartbeat", "UpdateValue"}
        /\ Len(ret.call.nonce) <= MaxNonceBytes)
    => /\ ret.err.type \in {"ExpectedError", "*ExpectedError"} => resp.status = 403
       /\ resp.status = 500 => ret.err.type = "awserr.Error"

\* C14: a request with a missing or empty nonce, a nonce longer than 64 bytes
\* or a missing or non-numeric fence is answered 400 without any backend call:
\* a handler that has written 400 calls nothing, no call in flight and no
\* stored record carries a nonce longer than 64 bytes, and a request whose
\* fence segment is not a number is answered 400.
C14_MalformedRejected ==
    /\ resp.status = 400 => resp.call = NoCall
    /\ \A c \in inflight : Len(c.nonce) <= MaxNonceBytes
    /\ \A n \in Names : Exists(db[n]) => Len(db[n].Nonce) <= MaxNonceBytes
    /\ (Len(resp.path) >= 3 /\ ~ParseInt(resp.path[3]).ok /\ resp.call = NoCall)
           => resp.status \in {400, 404, 405}
\* C15 as stated: of two Acquire calls for the same name in flight together,
\* at most one succeeds; the one applied after the other's success fails with
\* "Lock in use".
C15_OneOfTwoAcquires ==
    [][\A r \in rivals :
          ret'.call = r.call => ret'.err = ExpectedErrorPtr("Lock in use")]_vars

\* C15 (amended): of two Acquire calls for the same name in flight together,
\* where the first to be applied succeeds no later than leaseDuration after it
\* read the clock and the second is applied to the record the first left: the
\* second fails with "Lock in use" and changes nothing when the two carry
\* different nonces, and it succeeds as well when they carry the same nonce.
C15_OneOfTwoNonces ==
    [][\A r \in rivals :
          (ret'.call = r.call /\ ret'.pre = r.item /\ r.lag <= leaseDuration)
          => IF r.item.Nonce = r.call.nonce
                 THEN ret'.err = nil
                 ELSE /\ ret'.err = ExpectedErrorPtr("Lock in use")
                      /\ db' = db]_vars

C15_Witness ==
    /\ ret.call.op = "Acquire"
    /\ ret.err = ExpectedErrorPtr("Lock in use")
    /\ ret.pre.Nonce # ret.call.nonce
    /\ ret.pre.AcquireTime > ret.call.now
    /\ ret.pre.HeartbeatTime = ret.pre.AcquireTime
    /\ db[ret.call.name] = ret.pre
\* C16: every existing record is held or free by its ExpireTime alone: a
\* Heartbeat with the stored fence succeeds when ExpireTime is strictly after
\* the instant the call read, and an Acquire with any nonce succeeds when
\* ExpireTime is before or equal to the instant the call read.
C16_HeldFreeDichotomy ==
    /\ (/\ ret.call.op = "Heartbeat" /\ Exists(ret.pre)
        /\ ret.pre.Fence = ret.call.fence
        /\ ret.pre.ExpireTime > ret.call.now) => ret.err = nil
    /\ (/\ ret.call.op = "Acquire" /\ Exists(ret.pre)
        /\ ret.pre.ExpireTime <= ret.call.now) => ret.err = nil
\* C17: leases are time-bounded. A record whose ExpireTime stays what it is
\* (nothing renews the lease) while the clock advances becomes free: the table
\* then accepts an Acquire of the name by every nonce, the holder's or another;
\* and every Acquire that read the clock after the stored ExpireTime succeeds.
\* (ExpireTime values the clock of the model can pass: below MaxTime.)
Free(name) ==
    \A x \in Nonces :
        AcquireUpdateItem(db[name], name, x, clock, clock + leaseDuration).code = ""

C17_LeaseRunsOut ==
    /\ \A n \in Names : \A e \in 0..(MaxTime - 1) :
          (Exists(db[n]) /\ db[n].ExpireTime = e)
              ~> ((Exists(db[n]) /\ db[n].ExpireTime # e) \/ Free(n))
    /\ [](ret.call.op = "Acquire" /\ Exists(ret.pre) /\ ret.pre.ExpireTime < ret.call.now
              => ret.err = nil)

C17_Witness ==
    \E n \in Names :
        /\ Exists(db[n])
        /\ inflight = {}
        /\ db[n].ExpireTime = db[n].HeartbeatTime + leaseDuration
        /\ db[n].ExpireTime < clock
        /\ Free(n)
\* C18 as stated: a successful Heartbeat or UpdateValue never moves the stored
\* ExpireTime to an earlier instant, in every interleaving of concurrent calls.
C18_ExpiryNeverEarlier ==
    (ret.call.op \in {"Heartbeat", "UpdateValue"} /\ ret.err = nil)
    => db[ret.call.name].ExpireTime >= ret.pre.ExpireTime

\* C18 (amended): a successful Heartbeat or UpdateValue that read the clock no
\* earlier than the call that last wrote the record (its now is not before the
\* stored HeartbeatTime) never moves ExpireTime to an earlier instant; one that
\* read the clock earlier and is applied later sets ExpireTime to its own
\* now + extension, an earlier instant than the stored one.
C18_ExpiryInClockOrder ==
    (ret.call.op \in {"Heartbeat", "UpdateValue"} /\ ret.err = nil)
    => IF ret.call.now >= ret.pre.HeartbeatTime
           THEN db[ret.call.name].ExpireTime >= ret.pre.ExpireTime
           ELSE db[ret.call.name].ExpireTime < ret.pre.ExpireTime

C18_Witness ==
    /\ ret.call.op = "UpdateValue"
    /\ ret.err = nil
    /\ ret.pre.HeartbeatTime > ret.pre.AcquireTime
    /\ ret.call.now > ret.pre.HeartbeatTime
    /\ db[ret.call.name].ExpireTime > ret.pre.ExpireTime

\* C19: a stale holder is fenced out for good: a Heartbeat, UpdateValue or
\* Release carrying a fence lower than the stored one leaves the record as it
\* was; Heartbeat and UpdateValue fail with the expected error and Release
\* returns success without effect.
C19_StaleFencedOut ==
    (/\ ret.call.op \in {"Heartbeat", "UpdateValue", "Release"}
     /\ Exists(ret.pre)
     /\ ret.call.fence < ret.pre.Fence)
    => /\ db[ret.call.name] = ret.pre
       /\ ret.call.op = "Release" => ret.err = nil
       /\ ret.call.op # "Release" => ret.err.type = "*ExpectedError"

\* C20 as stated: a Heartbeat or UpdateValue applied at an instant at which the
\* stored ExpireTime is not strictly after the current clock value fails and
\* is not applied, even when the call read its now earlier.
C20_ExpiredAtApply ==
    (/\ ret.call.op \in {"Heartbeat", "UpdateValue"}
     /\ Exists(ret.pre)
     /\ ret.pre.ExpireTime <= clock)
    => /\ ret.err # nil
       /\ db[ret.call.name] = ret.pre

\* C20 (amended): a Heartbeat or UpdateValue fails and is not applied when the
\* stored ExpireTime is not strictly after the now value the call read; the
\* clock value at the instant the store applies the update plays no part.
C20_ExpiredAtNow ==
    (/\ ret.call.op \in {"Heartbeat", "UpdateValue"}
     /\ (Exists(ret.pre) => ret.pre.ExpireTime <= ret.call.now))
    => /\ ret.err # nil
       /\ db[ret.call.name] = ret.pre

C20_Witness ==
    /\ ret.call.op = "UpdateValue"
    /\ Exists(ret.pre)
    /\ ret.pre.Fence = ret.call.fence
    /\ ret.pre.ExpireTime <= ret.call.now
    /\ ret.err = ExpectedErrorPtr("Lock expired")
    /\ db[ret.call.name] = ret.pre
====
